---- MODULE Spec2Model ----
(***************************************************************************)
(* Task orchestration of the trading bot (src/main.py): the session clock, *)
(* the job table registered with the `schedule` library, the dispatch loop *)
(* keep_running_schedules, and the snapshot refresh actions.               *)
(*                                                                         *)
(* Time is in seconds.  An instant is the number of seconds since a Monday *)
(* 00:00:00 UTC.  The host's naive local time (what the schedule library   *)
(* reads with datetime.now()) is the instant plus hostOff; New York time   *)
(* (what is_market_open reads) is the instant plus NyOff.                  *)
(***************************************************************************)
EXTENDS Integers, Sequences, FiniteSets, TLC

VARIABLES
    now,         \* the current instant
    hostOff,     \* UTC offset of the host's local time zone
    proc,        \* position of main(): down, s_train .. s_high, register, loop, crashed
    runs,        \* number of process starts so far
    nextRun,     \* schedule job -> next_run (host local time), None before registration
    lastRun,     \* schedule job -> last_run (host local time), None if never run
    ready,       \* event loop: invocations ready to run, in FIFO order
    suspended,   \* event loop: invocations awaiting an external completion
    wakeAt,      \* instant at which asyncio.sleep(30) of the dispatch loop expires
    files,       \* snapshot file name -> [exists, data]
    calls,       \* external collaborators called since the process started
    alerts,      \* alerts emitted by the latest compare_stock_lists_and_alert
    \* observation of the run (history), read only by the properties
    lastTick,    \* instant of the latest schedule.run_pending() call, None if none
    tickGap,     \* time between the latest two run_pending() calls of this process
    raised,      \* jobs whose callable raised inside run_pending() in this process
    lastDispatch,\* job -> local time of its latest dispatch in this process
    prevDispatch,\* job -> local time of the dispatch before the latest one
    regAt,       \* instant at which the jobs were registered, None before
    trainLog,    \* local calendar days of every execution of daily_model_training
    done,        \* the invocation that finished last: fn, outcome, files before and after
    lastOut,     \* snapshot -> output of its most recent successful refresh
    prevOut,     \* snapshot -> output of the successful refresh before that one
    probe,       \* session clock probe: the instant asked about
    probeOpen,   \* session clock probe: what is_market_open() answered
    watchlist,   \* data/positive_watchlist.json: [exists, data]
    newsDone,    \* the latest watch_positive_news_stocks(): inputs, alerts, ending
    \* enhanced_main.py: SimpleEnhancedTradingSystem
    ePc,         \* position of the system: new, created, loop, stopped
    config,      \* self.config: [token, chat] of notifications, paper trading
    lib,         \* can the telegram library be imported
    is_running,  \* self.is_running
    loop_count,  \* loop_count of main_loop()
    notified,    \* the latest notification step: where, attempts, outcome
    healthAt,    \* the loop counts at which main_loop() ran the health check
    marketAt,    \* the loop counts at which main_loop() checked the market
    shutdowns,   \* how many times shutdown() was invoked
    weakDone,    \* the latest is_market_weak(): quote history, fetch, answer
    gateDone,    \* the latest market gate taken on its own: action, clock, ending
    checkDone,   \* the latest check_market_open(): host time, clock, answer
    loadDone,    \* the latest load_config(): settings file, ending, result
    deployDone   \* the latest deploy.main(): options, failing step, steps run, result

vars == <<now, hostOff, proc, runs, nextRun, lastRun, ready, suspended, wakeAt,
          files, calls, alerts, lastTick, tickGap, raised, lastDispatch,
          prevDispatch, regAt, trainLog, done, lastOut, prevOut, probe, probeOpen,
          watchlist, newsDone, ePc, config, lib, is_running, loop_count,
          notified, healthAt, marketAt, shutdowns, weakDone, gateDone, checkDone,
          loadDone, deployDone>>

None == 0 - 1

(***************************************************************************)
(* Bounds of the model.                                                    *)
(***************************************************************************)
\* process starts explored
MaxRuns == 2
\* running time of a slow blocking call (model training, detection, a fetch)
Block == 400

(***************************************************************************)
(* Calendar arithmetic.                                                    *)
(***************************************************************************)
Minute == 1 * 60
Hour == 60 * 60
Day == 24 * 60 * 60

\* America/New_York, standard time (UTC-5)
NyOff == 0 - 5 * Hour
\* host zones explored: a host in New York, and a host at UTC+3
HostOffsets == {NyOff, 3 * Hour}

TimeOfDay(t) == t % Day
DayOf(t) == t \div Day
\* datetime.weekday(): Monday is 0
Weekday(t) == DayOf(t) % 7
HourOf(t) == TimeOfDay(t) \div Hour
MinuteOf(t) == (TimeOfDay(t) % Hour) \div Minute
HMS(h, m, s) == h * Hour + m * Minute + s

\* datetime.now(ny_tz) and the naive datetime.now() of the host
NyTime(t) == t + NyOff
LocalTime(t) == t + hostOff

\* Python's tuple comparison (a1, a2) <= (b1, b2) and (a1, a2) < (b1, b2)
TupleLE(a, b) == a[1] < b[1] \/ (a[1] = b[1] /\ a[2] <= b[2])
TupleLT(a, b) == a[1] < b[1] \/ (a[1] = b[1] /\ a[2] < b[2])

market_open == <<9, 30>>
market_close == <<16, 0>>

IsMarketOpenInclusiveClose(t) ==
    LET ny == NyTime(t)
        current_time == <<HourOf(ny), MinuteOf(ny)>>
    IN  IF Weekday(ny) >= 5 THEN FALSE
        ELSE TupleLE(market_open, current_time) /\ TupleLE(current_time, market_close)

\* is_market_open() evaluated at instant t
IsMarketOpen(t) ==
    LET ny == NyTime(t)
        current_time == <<HourOf(ny), MinuteOf(ny)>>
    IN  IF Weekday(ny) >= 5 THEN FALSE
        ELSE TupleLE(market_open, current_time) /\ TupleLT(current_time, market_close)

(***************************************************************************)
(* The job table of main(), in registration order (schedule.jobs).         *)
(***************************************************************************)
Jobs == 1..12
StopOrderJob == 12
NewsJob == 7

\* the cadence of each registered job
JobUnit(j) == IF j \in {1, 2, 8, 9, 11} THEN "days" ELSE "minutes"
\* every(n).minutes: the period in seconds
JobPeriod(j) ==
    CASE j \in {3, 4, 5, 6} -> 5 * 60
      [] j = 7 -> 10 * 60
      [] j = 10 -> 15 * 60
      [] j = 12 -> 1 * 60
      [] OTHER -> Day
\* every().day.at("HH:MM"): the time of day
JobAt(j) ==
    CASE j = 1 -> HMS(0, 0, 0)
      [] j = 2 -> HMS(3, 0, 0)
      [] j = 8 -> HMS(20, 0, 0)
      [] j = 9 -> HMS(0, 5, 0)
      [] j = 11 -> HMS(15, 50, 0)
      [] OTHER -> None
\* the coroutine a job's lambda wraps in asyncio.create_task
JobFn(j) ==
    CASE j = 1 -> "daily_model_training"
      [] j = 2 -> "update_symbols"
      [] j = 3 -> "update_market_data"
      [] j = 4 -> "update_pump_stocks"
      [] j = 5 -> "update_high_movement_stocks"
      [] j = 6 -> "track_targets"
      [] j = 7 -> "watch_positive_news_stocks"
      [] j = 8 -> "send_daily_report_task"
      [] j = 9 -> "clean_trade_history_task"
      [] j = 10 -> "send_pnl_summary"
      [] j = 11 -> "close_all_positions_before_market_close"
      [] OTHER -> "verify_active_stop_orders"

DailyJobs == {j \in Jobs : JobUnit(j) = "days"}
FiveMinuteJobs == {j \in Jobs : JobUnit(j) = "minutes" /\ JobPeriod(j) = 5 * 60}

\* the jobs whose callable does its work inside run_pending() instead of
\* creating a task: watch_positive_news_stocks and asyncio.run(...)
DirectJobs == {NewsJob, StopOrderJob}

JobCallableNeverRaises(j) == FALSE

\* How a job's callable ends when run_pending() calls it.  The lambdas that
\* wrap asyncio.create_task return at once; watch_positive_news_stocks is
\* called directly and catches its own exceptions; the lambda of job 12
\* evaluates the name verify_active_stop_orders, which main.py neither
\* defines nor imports, and raises NameError.
JobCallableRaises(j) == j = StopOrderJob

\* Job._schedule_next_run at local time l (after Job.run set last_run to l
\* when hasLast): next_run = now + period and, for a daily job, replaced to
\* the at-time and moved back a day when the at-time is still ahead today.
ScheduleNextRun(j, l, hasLast) ==
    IF JobUnit(j) = "minutes" THEN l + JobPeriod(j)
    ELSE LET cand == DayOf(l + Day) * Day + JobAt(j)
         IN  IF (~hasLast \/ cand - l > Day) /\ JobAt(j) > TimeOfDay(l)
             THEN cand - Day
             ELSE cand

\* Job.should_run: datetime.now() >= next_run
ShouldRun(j, l) == nextRun[j] # None /\ l >= nextRun[j]

\* Job.__lt__ with Python's stable sort over schedule.jobs
JobBefore(a, b) ==
    nextRun[a] < nextRun[b] \/ (nextRun[a] = nextRun[b] /\ a < b)

RECURSIVE SortJobs(_)
\* sorted(runnable_jobs)
SortJobs(S) ==
    IF S = {} THEN <<>>
    ELSE LET first == CHOOSE a \in S : \A b \in S \ {a} : JobBefore(a, b)
         IN  <<first>> \o SortJobs(S \ {first})

(***************************************************************************)
(* Snapshot files: data/<name>.json and data/<name>_old.json.              *)
(***************************************************************************)
Names == {"top_stocks", "pump_stocks", "high_movement_stocks"}
\* the lists a refresh may produce
Lists == {<<"AAA", "BBB">>, <<"AAA", "BBB", "CCC">>}

Absent == [exists |-> FALSE, data |-> <<>>]
File(d) == [exists |-> TRUE, data |-> d]
NoFiles == [n \in Names |-> [cur |-> Absent, old |-> Absent]]

BackupNever(f, n) == f

\* if os.path.exists(name): shutil.copy(name, name_old)
Backup(f, n) == IF f[n].cur.exists THEN [f EXCEPT ![n].old = f[n].cur] ELSE f

RECURSIVE BackupAll(_, _)
\* the copies an action makes before its refresh, one after the other
BackupAll(f, ns) ==
    IF ns = <<>> THEN f ELSE BackupAll(Backup(f, Head(ns)), Tail(ns))

\* the refresh collaborator stores its result in data/<name>.json
RefreshWrite(f, n, d) == [f EXCEPT ![n].cur = File(d)]

Range(q) == {q[k] : k \in 1..Len(q)}
\* the Differ: symbols of the new list that the old list lacks, in the new
\* list's order; an absent old file counts as no priors
NewEntries(oldF, newF) ==
    LET olds == IF oldF.exists THEN Range(oldF.data) ELSE {}
    IN  SelectSeq(newF.data, LAMBDA x : x \notin olds)
\* compare_stock_lists_and_alert(name_old, name, prefix): one alert per new entry
CompareAndAlert(f, n) ==
    LET new == NewEntries(f[n].old, f[n].cur)
    IN  [k \in 1..Len(new) |-> <<n, new[k]>>]

(***************************************************************************)
(* The pipeline actions.                                                   *)
(***************************************************************************)
\* the snapshot an action refreshes, the files it backs up first (in the
\* order of the code), and the collaborator that produces the new data
Snapshot(fn) ==
    CASE fn = "update_market_data" -> "top_stocks"
      [] fn = "update_pump_stocks" -> "pump_stocks"
      [] OTHER -> "high_movement_stocks"
BackedUp(fn) ==
    CASE fn = "update_market_data" ->
             <<"top_stocks", "pump_stocks", "high_movement_stocks">>
      [] fn = "update_pump_stocks" -> <<"pump_stocks">>
      [] OTHER -> <<"high_movement_stocks">>
Collaborator(fn) ==
    CASE fn = "update_market_data" -> "analyze_market"
      [] fn = "update_pump_stocks" -> "detect_pump_stocks"
      [] fn = "update_high_movement_stocks" -> "analyze_high_movement_stocks"
      [] fn = "daily_model_training" -> "train_model_daily"
      [] fn = "update_symbols" -> "fetch_all_us_symbols"
      [] fn = "track_targets" -> "check_targets"
      [] fn = "send_daily_report_task" -> "generate_report_summary"
      [] fn = "clean_trade_history_task" -> "clean_old_trades"
      [] OTHER -> fn

\* actions made of one body without a market gate
PlainFns == {"daily_model_training", "update_symbols", "track_targets",
             "clean_trade_history_task", "send_pnl_summary",
             "close_all_positions_before_market_close"}
\* refresh actions that await their collaborator
AwaitingFns == {"update_market_data", "update_high_movement_stocks"}
\* actions whose body is wrapped in try/except Exception
CatchingFns == {"daily_model_training", "update_symbols", "track_targets",
                "update_market_data", "update_pump_stocks",
                "update_high_movement_stocks"}
\* running times explored for the synchronous call inside an action
Durations(fn) ==
    IF fn \in {"daily_model_training", "update_pump_stocks"} THEN {0, Block} ELSE {0}

GateIgnored(fn, t) == TRUE

\* the market gate at the head of an action: does the body run at instant t
GateHolds(fn, t) ==
    IF fn = "send_daily_report_task" THEN ~IsMarketOpen(t) ELSE IsMarketOpen(t)

\* an invocation: a coroutine of one action, awaited by main() or run as a task
Inv(fn, owner) ==
    [fn |-> fn, pc |-> "start", owner |-> owner, pre |-> NoFiles,
     res |-> "none", out |-> <<>>]

NoDone == [fn |-> "none", outcome |-> "none", pre |-> NoFiles, post |-> NoFiles,
           new |-> <<>>]

\* main(): the actions awaited one after the other before the registration
NextStage(p) ==
    CASE p = "s_train" -> "s_market"
      [] p = "s_market" -> "s_pump"
      [] p = "s_pump" -> "s_high"
      [] OTHER -> "register"
StageFn(p) ==
    CASE p = "s_train" -> "daily_model_training"
      [] p = "s_market" -> "update_market_data"
      [] p = "s_pump" -> "update_pump_stocks"
      [] OTHER -> "update_high_movement_stocks"
StartupStages == {"s_train", "s_market", "s_pump", "s_high"}
Alive == proc \in StartupStages \cup {"register", "loop"}

\* the head invocation returns (or ends with an exception): a task ends; main()
\* goes on to its next awaited action, or crashes if the exception escaped
Return(inv, outcome) ==
    IF inv.owner = "main"
    THEN IF outcome = "escaped"
         THEN /\ proc' = "crashed"
              /\ ready' = <<>>
         ELSE /\ proc' = NextStage(proc)
              /\ ready' = IF NextStage(proc) \in StartupStages
                          THEN Tail(ready) \o <<Inv(StageFn(NextStage(proc)), "main")>>
                          ELSE Tail(ready)
    ELSE /\ proc' = proc
         /\ ready' = Tail(ready)

DiffAlways(res) == TRUE

\* compare_stock_lists_and_alert() stands after the refresh inside the try:
\* it is reached only when the refresh did not raise
DiffRuns(res) == res = "ok"

Outcome(fn, res) ==
    IF res = "ok" THEN "ok" ELSE IF fn \in CatchingFns THEN "failed" ELSE "escaped"

(***************************************************************************)
(* Initial state: no process yet, no snapshot on disk.                     *)
(***************************************************************************)
\* host-local instants at which the process is started
StartLocals ==
    { HMS(19, 59, 40),              \* Monday, just before the 20:00 report
      HMS(23, 59, 40),              \* Monday, just before midnight
      Day + HMS(10, 0, 0),          \* Tuesday morning
      Day + HMS(14, 0, 0),          \* Tuesday afternoon
      Day + HMS(17, 30, 0),         \* Tuesday evening
      5 * Day + HMS(12, 0, 0) }     \* Saturday noon

TickPeriod == 30

schedVars == <<nextRun, lastRun, wakeAt, lastTick, tickGap, raised,
               lastDispatch, prevDispatch, regAt>>
fileVars == <<files, lastOut, prevOut>>
probeVars == <<probe, probeOpen>>
\* the state of the operations that are checked on their own
newsVars == <<watchlist, newsDone>>
enhVars == <<ePc, config, lib, is_running, loop_count, notified, healthAt, marketAt,
             shutdowns>>
\* the operations checked as functions of their inputs
pureVars == <<weakDone, gateDone, checkDone, loadDone, deployDone>>
sideVars == <<newsVars, enhVars, pureVars>>
mainVars == <<now, hostOff, proc, runs, ready, suspended, calls, alerts,
              trainLog, done, schedVars, fileVars>>

NoNews == [old |-> Absent, stocks |-> <<>>, sent |-> <<>>, outcome |-> "none"]
\* get_default_config(): no notifications section
DefaultConfig == [token |-> "absent", chat |-> FALSE, paper |-> TRUE]
NoCheck == [asked |-> FALSE, at |-> 0, clock |-> "none", open |-> FALSE]
NoLoad == [file |-> [status |-> "none", content |-> DefaultConfig], raised |-> FALSE,
           result |-> "none", config |-> DefaultConfig]
NoDeploy == [pc |-> "new", no_docker |-> FALSE, skip_tests |-> FALSE, nt |-> FALSE,
             pos |-> 0, ran |-> <<>>, failed |-> "none", result |-> "none",
             exit |-> 0 - 1]
NoGate == [fn |-> "none", at |-> 0, clock |-> "none", outcome |-> "none"]
NotAsked == [asked |-> FALSE, fetch |-> "none", hist |-> <<>>, result |-> FALSE,
             logged |-> FALSE, raised |-> FALSE]
NotNotified == [step |-> "none", attempts |-> 0, outcome |-> "none",
                transport |-> <<>>]

InitExceptRuns ==
    /\ now = 0
    /\ hostOff \in HostOffsets
    /\ proc = "down"
    /\ nextRun = [j \in Jobs |-> None]
    /\ lastRun = [j \in Jobs |-> None]
    /\ ready = <<>>
    /\ suspended = <<>>
    /\ wakeAt = None
    /\ files = NoFiles
    /\ calls = {}
    /\ alerts = <<>>
    /\ lastTick = None
    /\ tickGap = 0
    /\ raised = {}
    /\ lastDispatch = [j \in Jobs |-> None]
    /\ prevDispatch = [j \in Jobs |-> None]
    /\ regAt = None
    /\ trainLog = <<>>
    /\ done = NoDone
    /\ lastOut = [n \in Names |-> Absent]
    /\ prevOut = [n \in Names |-> Absent]
    /\ probe = 0
    /\ probeOpen = IsMarketOpen(0)
    /\ watchlist = Absent
    /\ newsDone = NoNews
    /\ ePc = "new"
    /\ config = DefaultConfig
    /\ lib = TRUE
    /\ is_running = FALSE
    /\ loop_count = 0
    /\ notified = NotNotified
    /\ healthAt = {}
    /\ marketAt = {}
    /\ shutdowns = 0
    /\ weakDone = NotAsked
    /\ gateDone = NoGate
    /\ checkDone = NoCheck
    /\ loadDone = NoLoad
    /\ deployDone = NoDeploy

Init == InitExceptRuns /\ runs = 0

(***************************************************************************)
(* main(): start of the process up to the registration of the jobs.        *)
(***************************************************************************)
\* The process is started (again): a process that still runs is stopped, its
\* event loop and its in-memory job table are gone; the files stay.
Start ==
    /\ proc \in {"down", "crashed", "loop"}
    /\ runs < MaxRuns
    /\ \E l \in StartLocals :
         /\ l - hostOff > now
         /\ now' = l - hostOff
    /\ runs' = runs + 1
    /\ proc' = "s_train"
    /\ ready' = <<Inv("daily_model_training", "main")>>
    /\ suspended' = <<>>
    /\ nextRun' = [j \in Jobs |-> None]
    /\ lastRun' = [j \in Jobs |-> None]
    /\ wakeAt' = None
    /\ calls' = {}
    /\ lastTick' = None
    /\ tickGap' = 0
    /\ raised' = {}
    /\ lastDispatch' = [j \in Jobs |-> None]
    /\ prevDispatch' = [j \in Jobs |-> None]
    /\ regAt' = None
    /\ UNCHANGED <<hostOff, alerts, trainLog, done, fileVars, probeVars, sideVars>>

\* the twelve schedule.every(...).do(...) calls
Register ==
    /\ proc = "register"
    /\ nextRun' = [j \in Jobs |-> ScheduleNextRun(j, LocalTime(now), FALSE)]
    /\ lastRun' = [j \in Jobs |-> None]
    /\ regAt' = now
    /\ wakeAt' = now
    /\ proc' = "loop"
    /\ UNCHANGED <<now, hostOff, runs, ready, suspended, calls, alerts, lastTick,
                   tickGap, raised, lastDispatch, prevDispatch, trainLog, done,
                   fileVars, probeVars, sideVars>>

(***************************************************************************)
(* The event loop runs the invocation at the head of the ready queue up to *)
(* its next suspension.                                                    *)
(***************************************************************************)
\* daily_model_training, update_symbols, track_targets,
\* clean_trade_history_task and the two imported coroutines
StepPlain ==
    /\ Alive /\ ready # <<>>
    /\ LET inv == Head(ready) IN
       /\ inv.fn \in PlainFns
       /\ \E d \in Durations(inv.fn), res \in {"ok", "err"} :
            /\ now' = now + d
            /\ calls' = calls \cup {Collaborator(inv.fn)}
            /\ trainLog' = IF inv.fn = "daily_model_training"
                           THEN Append(trainLog, DayOf(LocalTime(now)))
                           ELSE trainLog
            /\ done' = [fn |-> inv.fn, outcome |-> Outcome(inv.fn, res),
                        pre |-> files, post |-> files, new |-> <<>>]
            /\ Return(inv, Outcome(inv.fn, res))
    /\ UNCHANGED <<hostOff, runs, suspended, alerts, schedVars, fileVars, probeVars, sideVars>>

\* send_daily_report_task: the report is generated only with the market closed
StepReport ==
    /\ Alive /\ ready # <<>>
    /\ LET inv == Head(ready) IN
       /\ inv.fn = "send_daily_report_task"
       /\ \E res \in {"ok", "err"} :
            IF GateHolds(inv.fn, now)
            THEN /\ calls' = calls \cup {Collaborator(inv.fn)}
                 /\ done' = [fn |-> inv.fn, outcome |-> Outcome(inv.fn, res),
                             pre |-> files, post |-> files, new |-> <<>>]
                 /\ Return(inv, Outcome(inv.fn, res))
            ELSE /\ calls' = calls
                 /\ done' = [fn |-> inv.fn, outcome |-> "skipped",
                             pre |-> files, post |-> files, new |-> <<>>]
                 /\ Return(inv, "skipped")
    /\ UNCHANGED <<now, hostOff, runs, suspended, alerts, trainLog, schedVars,
                   fileVars, probeVars, sideVars>>

\* update_pump_stocks: gate, backup, detect_pump_stocks(), compare; no await
StepPump ==
    /\ Alive /\ ready # <<>>
    /\ LET inv == Head(ready) IN
       /\ inv.fn = "update_pump_stocks"
       /\ IF ~GateHolds(inv.fn, now)
          THEN /\ done' = [fn |-> inv.fn, outcome |-> "skipped",
                           pre |-> files, post |-> files, new |-> <<>>]
               /\ Return(inv, "skipped")
               /\ UNCHANGED <<now, calls, alerts, fileVars>>
          ELSE \E d \in Durations(inv.fn), res \in {"ok", "err"}, data \in Lists :
               LET n == Snapshot(inv.fn)
                   copied == BackupAll(files, BackedUp(inv.fn))
                   after == IF res = "ok" THEN RefreshWrite(copied, n, data) ELSE copied
               IN  /\ now' = now + d
                   /\ calls' = calls \cup {Collaborator(inv.fn)}
                   /\ files' = after
                   /\ alerts' = IF DiffRuns(res) THEN CompareAndAlert(after, n)
                                ELSE alerts
                   /\ lastOut' = IF res = "ok" THEN [lastOut EXCEPT ![n] = File(data)]
                                 ELSE lastOut
                   /\ prevOut' = IF res = "ok" THEN [prevOut EXCEPT ![n] = lastOut[n]]
                                 ELSE prevOut
                   /\ done' = [fn |-> inv.fn, outcome |-> Outcome(inv.fn, res),
                               pre |-> files, post |-> after,
                               new |-> IF res = "ok" THEN data ELSE <<>>]
                   /\ Return(inv, Outcome(inv.fn, res))
    /\ UNCHANGED <<hostOff, runs, suspended, trainLog, schedVars, probeVars, sideVars>>

\* update_market_data and update_high_movement_stocks up to their await:
\* gate, backups, then the call of the collaborator
StepRefreshStart ==
    /\ Alive /\ ready # <<>>
    /\ LET inv == Head(ready) IN
       /\ inv.fn \in AwaitingFns
       /\ inv.pc = "start"
       /\ IF ~GateHolds(inv.fn, now)
          THEN /\ done' = [fn |-> inv.fn, outcome |-> "skipped",
                           pre |-> files, post |-> files, new |-> <<>>]
               /\ Return(inv, "skipped")
               /\ UNCHANGED <<calls, files, suspended>>
          ELSE /\ files' = BackupAll(files, BackedUp(inv.fn))
               /\ calls' = calls \cup {Collaborator(inv.fn)}
               /\ suspended' = Append(suspended, [inv EXCEPT !.pc = "await", !.pre = files])
               /\ ready' = Tail(ready)
               /\ UNCHANGED <<proc, done>>
    /\ UNCHANGED <<now, hostOff, runs, alerts, trainLog, schedVars, lastOut, prevOut,
                   probeVars, sideVars>>

\* the awaited collaborator (analyze_market, or analyze_high_movement_stocks
\* in its thread) finishes: it stored its result, or it raised
RefreshDone ==
    /\ Alive
    /\ \E k \in 1..Len(suspended), res \in {"ok", "err"}, data \in Lists,
          e \in IF proc = "loop" THEN {0} ELSE {0, Block} :
         LET inv == suspended[k]
             n == Snapshot(inv.fn)
         IN  /\ now' = now + e
             /\ files' = IF res = "ok" THEN RefreshWrite(files, n, data) ELSE files
             /\ lastOut' = IF res = "ok" THEN [lastOut EXCEPT ![n] = File(data)]
                           ELSE lastOut
             /\ prevOut' = IF res = "ok" THEN [prevOut EXCEPT ![n] = lastOut[n]]
                           ELSE prevOut
             /\ suspended' = SubSeq(suspended, 1, k - 1)
                             \o SubSeq(suspended, k + 1, Len(suspended))
             /\ ready' = Append(ready, [inv EXCEPT !.pc = "resumed", !.res = res,
                                                   !.out = IF res = "ok" THEN data
                                                           ELSE <<>>])
    /\ UNCHANGED <<hostOff, proc, runs, calls, alerts, trainLog, done, schedVars,
                   probeVars, sideVars>>

\* update_market_data and update_high_movement_stocks after their await: the
\* compare and its alerts, or the except branch
StepRefreshResume ==
    /\ Alive /\ ready # <<>>
    /\ LET inv == Head(ready) IN
       /\ inv.fn \in AwaitingFns
       /\ inv.pc = "resumed"
       /\ alerts' = IF DiffRuns(inv.res) THEN CompareAndAlert(files, Snapshot(inv.fn))
                    ELSE alerts
       /\ calls' = IF inv.res = "ok" /\ inv.fn = "update_market_data"
                   THEN calls \cup {"check_cross_list_movements"}
                   ELSE calls
       /\ done' = [fn |-> inv.fn, outcome |-> Outcome(inv.fn, inv.res),
                   pre |-> inv.pre, post |-> files, new |-> inv.out]
       /\ Return(inv, Outcome(inv.fn, inv.res))
    /\ UNCHANGED <<now, hostOff, runs, suspended, trainLog, schedVars, fileVars,
                   probeVars, sideVars>>

(***************************************************************************)
(* keep_running_schedules: schedule.run_pending(), then asyncio.sleep(30). *)
(***************************************************************************)
RECURSIVE RunJobs(_, _, _)
\* run_pending(): the runnable jobs in sorted order.  Job.run() calls the
\* job's callable, then sets last_run and next_run; an exception of the
\* callable leaves run_pending() at once.  st is the state threaded through:
\* t the instant, nr/lr next_run and last_run, rq the ready queue, ld/pd the
\* latest dispatch times; d is the running time of a directly called job.
RunJobs(q, st, d) ==
    IF q = <<>> \/ st.crashed THEN st
    ELSE LET j == Head(q) IN
         IF JobCallableRaises(j)
         THEN RunJobs(Tail(q), [st EXCEPT !.crashed = TRUE, !.raised = @ \cup {j}], d)
         ELSE LET t1 == IF j = NewsJob THEN st.t + d ELSE st.t
                  l1 == t1 + hostOff
              IN  RunJobs(Tail(q),
                          [st EXCEPT !.t = t1,
                                     !.rq = IF j \in DirectJobs THEN @
                                            ELSE Append(@, Inv(JobFn(j), "task")),
                                     !.lr[j] = l1,
                                     !.nr[j] = ScheduleNextRun(j, l1, TRUE),
                                     !.pd[j] = st.ld[j],
                                     !.ld[j] = st.t + hostOff],
                          d)

\* one iteration of the dispatch loop, when its sleep has expired and the
\* event loop has nothing else ready
Tick ==
    /\ proc = "loop"
    /\ ready = <<>>
    /\ now >= wakeAt
    /\ LET due == {j \in Jobs : ShouldRun(j, LocalTime(now))} IN
       \E d \in IF NewsJob \in due THEN {0, Block} ELSE {0} :
         LET st == RunJobs(SortJobs(due),
                           [t |-> now, nr |-> nextRun, lr |-> lastRun, rq |-> ready,
                            crashed |-> FALSE, raised |-> raised,
                            ld |-> lastDispatch, pd |-> prevDispatch],
                           d)
         IN  /\ now' = st.t
             /\ nextRun' = st.nr
             /\ lastRun' = st.lr
             /\ lastDispatch' = st.ld
             /\ prevDispatch' = st.pd
             /\ raised' = st.raised
             /\ proc' = IF st.crashed THEN "crashed" ELSE "loop"
             /\ ready' = IF st.crashed THEN <<>> ELSE st.rq
             /\ suspended' = IF st.crashed THEN <<>> ELSE suspended
             /\ wakeAt' = st.t + TickPeriod
    /\ lastTick' = now
    /\ tickGap' = IF lastTick = None THEN 0 ELSE now - lastTick
    /\ UNCHANGED <<hostOff, runs, calls, alerts, regAt, trainLog, done, fileVars,
                   probeVars, sideVars>>

\* nothing is ready: time passes until the sleep of the dispatch loop expires
Idle ==
    /\ proc = "loop"
    /\ ready = <<>>
    /\ now < wakeAt
    /\ now' = wakeAt
    /\ UNCHANGED <<hostOff, proc, runs, ready, suspended, calls, alerts, trainLog,
                   done, schedVars, fileVars, probeVars, sideVars>>

Next ==
    \/ Start
    \/ Register
    \/ StepPlain
    \/ StepReport
    \/ StepPump
    \/ StepRefreshStart
    \/ RefreshDone
    \/ StepRefreshResume
    \/ Tick
    \/ Idle

Spec == Init /\ [][Next]_vars

(***************************************************************************)
(* The session clock asked about an arbitrary instant.                     *)
(***************************************************************************)
ProbeTimes ==
    { HMS(0, 0, 0), HMS(4, 30, 0), HMS(9, 0, 0), HMS(9, 29, 0), HMS(9, 29, 59),
      HMS(9, 30, 0), HMS(9, 30, 1), HMS(9, 59, 59), HMS(12, 0, 0), HMS(15, 30, 0),
      HMS(15, 59, 0), HMS(15, 59, 59), HMS(16, 0, 0), HMS(16, 0, 1), HMS(16, 30, 0),
      HMS(23, 59, 59) }
\* the instants at which New York reads one of ProbeTimes, on each weekday
ProbeInstants == {d * Day + t - NyOff : d \in 0..6, t \in ProbeTimes}

ProbeClock ==
    /\ \E t \in ProbeInstants :
         /\ probe' = t
         /\ probeOpen' = IsMarketOpen(t)
    /\ UNCHANGED <<mainVars, sideVars>>

SpecClock == Init /\ [][ProbeClock]_vars

(***************************************************************************)
(* Properties.                                                             *)
(***************************************************************************)

\* C1: a job whose callable raises inside run_pending() never stops the
\* dispatch loop: the loop is still running after that tick, and every other
\* job that was due at that tick has been dispatched.
C1_FailingJobNeverStopsLoop ==
    raised # {} =>
        /\ proc = "loop"
        /\ \A j \in Jobs \ raised : ~ShouldRun(j, LocalTime(lastTick))

\* C2: the dispatch loop waits for no job's action: the time between two
\* consecutive run_pending() calls is the tick period, never extended by the
\* running time of an action (tickGap is 0 until the second tick).
C2_TickCadenceNeverExtended == tickGap \in {0, TickPeriod}

\* C3: a job registered every 5 minutes fires at most once in any 5-minute
\* window and at least once in every 5 minutes 30 seconds of the loop's run
\* (counted from its registration, then from its latest dispatch).
C3_FiveMinuteCadence ==
    \A j \in FiveMinuteJobs :
        /\ (prevDispatch[j] # None => lastDispatch[j] - prevDispatch[j] >= 5 * 60)
        /\ (proc = "loop" =>
               LocalTime(now) - (IF lastDispatch[j] # None THEN lastDispatch[j]
                                 ELSE LocalTime(regAt))
                   <= 5 * 60 + TickPeriod)

\* C4: daily_model_training executes exactly once per calendar day, restarts
\* included: no two executions fall on the same day, and no day between two
\* executions goes without one.
C4_TrainingOncePerDay ==
    /\ \A a, b \in 1..Len(trainLog) : a # b => trainLog[a] # trainLog[b]
    /\ \A a \in 1..Len(trainLog) : \A d \in trainLog[1]..trainLog[a] :
           \E b \in 1..Len(trainLog) : trainLog[b] = d

\* C5: tolerant daily triggering: a daily job is dispatched at the first tick
\* at or after its target time (after a tick, no daily job is left due), and
\* is never dispatched twice on one calendar day while the process stays up.
C5_TolerantDailyTrigger ==
    /\ lastTick # None =>
           \A j \in DailyJobs : ~ShouldRun(j, LocalTime(lastTick))
    /\ \A j \in DailyJobs :
           prevDispatch[j] # None => DayOf(prevDispatch[j]) # DayOf(lastDispatch[j])

RefreshFns == {"update_market_data", "update_pump_stocks", "update_high_movement_stocks"}

\* C6: is_market_open() is true exactly when New York's clock reads Monday to
\* Friday and a time of day in [09:30:00, 16:00:00).
C6_MarketOpenIffSession ==
    probeOpen = (/\ Weekday(NyTime(probe)) \in 0..4
                 /\ HMS(9, 30, 0) <= TimeOfDay(NyTime(probe))
                 /\ TimeOfDay(NyTime(probe)) < HMS(16, 0, 0))

\* the clock was asked at exactly 16:00:00 of a weekday and answered closed
C6_AskedAtTheClose ==
    /\ Weekday(NyTime(probe)) \in 0..4
    /\ TimeOfDay(NyTime(probe)) = HMS(16, 0, 0)
    /\ ~probeOpen

\* the head invocation takes its first step while its market gate fails: the
\* market is closed for a refresh action, open for the daily report
GateFailsStep ==
    /\ ready # <<>>
    /\ Head(ready).pc = "start"
    /\ \/ Head(ready).fn \in RefreshFns /\ ~IsMarketOpen(now)
       \/ Head(ready).fn = "send_daily_report_task" /\ IsMarketOpen(now)
    /\ (StepPump \/ StepRefreshStart \/ StepReport)

\* C7: a gated action invoked while its gate fails changes no snapshot file,
\* no _old file, calls no collaborator and emits no alert.
C7_GateFailsNoWork ==
    [][GateFailsStep => UNCHANGED <<files, calls, alerts>>]_vars

\* the daily report was dispatched with the market open and was skipped
C7_ReportSkippedWhileOpen ==
    /\ done.fn = "send_daily_report_task"
    /\ done.outcome = "skipped"
    /\ IsMarketOpen(now)

\* C8: after a refresh action that ran with the market open and whose refresh
\* succeeded, name holds the new data and name_old what name held just before
\* the invocation; if name did not exist, name_old is left as it was.
C8_BackupThenOverwrite ==
    (done.fn \in RefreshFns /\ done.outcome = "ok") =>
        LET n == Snapshot(done.fn) IN
        /\ done.post[n].cur = File(done.new)
        /\ done.post[n].old = IF done.pre[n].cur.exists THEN done.pre[n].cur
                              ELSE done.pre[n].old

\* a refresh of the high-movement list replaced an existing snapshot by
\* different data
C8_HighMovementReplaced ==
    /\ done.fn = "update_high_movement_stocks"
    /\ done.outcome = "ok"
    /\ done.pre["high_movement_stocks"].cur.exists
    /\ done.pre["high_movement_stocks"].cur.data # done.new
    /\ done.post["high_movement_stocks"].old = done.pre["high_movement_stocks"].cur

\* C9: a refresh action whose refresh step fails leaves the stored state
\* untouched: name and name_old hold after the invocation what they held
\* before it.
C9_FailedRefreshLeavesStateUntouched ==
    (done.fn \in RefreshFns /\ done.outcome = "failed") =>
        done.post[Snapshot(done.fn)] = done.pre[Snapshot(done.fn)]

\* no invocation is between its first and its last step
BetweenInvocations ==
    /\ suspended = <<>>
    /\ \A k \in 1..Len(ready) : ready[k].pc = "start"

\* C10: between invocations every snapshot file holds the output of its most
\* recent successful refresh and its _old file the output of the successful
\* refresh before that one.
C10_SnapshotInvariant ==
    BetweenInvocations =>
        \A n \in Names : files[n].cur = lastOut[n] /\ files[n].old = prevOut[n]

(***************************************************************************)
(* Writers of one named snapshot.                                          *)
(***************************************************************************)
\* the invocations between their backup and their diff: suspended at their
\* await, or resumed and waiting for the event loop
InFlight == suspended \o SelectSeq(ready, LAMBDA i : i.pc = "resumed")
\* the snapshots held by them
Held == {Snapshot(InFlight[k].fn) : k \in 1..Len(InFlight)}

\* the head invocation runs its backups (and update_pump_stocks its refresh)
WritingStep ==
    /\ ready # <<>>
    /\ Head(ready).pc = "start"
    /\ Head(ready).fn \in RefreshFns
    /\ IsMarketOpen(now)
    /\ (StepPump \/ StepRefreshStart)

MaxLen == 2

Symbols == {"AAA", "BBB", "CCC"}
\* what fetch_news_sentiment(symbol) answers ("negative" is handled as
\* "neutral" is: the watcher only tests for "positive")
Sentiments == {"positive", "neutral"}
\* what fetch_stocks_from_tradingview() may return, each stock with the
\* sentiment its news will get
Fetched ==
    UNION {[1..n -> [symbol : Symbols, sentiment : Sentiments]] : n \in 0..MaxLen}

\* old_symbols: the symbols of the stored watch list, none without the file
OldSymbols(w) == IF w.exists THEN w.data ELSE <<>>

\* the loop over stocks: the stocks with positive news whose symbol is not in
\* old_symbols, in the order of the fetched list
PositiveNotOld(stocks, old_symbols) ==
    SelectSeq(stocks, LAMBDA st : /\ st.sentiment = "positive"
                                  /\ st.symbol \notin Range(old_symbols))

SymbolsOf(q) == [k \in 1..Len(q) |-> q[k].symbol]

\* one call of watch_positive_news_stocks(): it ends normally, or a call made
\* before the loop (fetch_stocks_from_tradingview(), json.load) raises and
\* the except branch only logs; each stock found is alerted, then appended
WatchNews ==
    /\ \E stocks \in Fetched, res \in {"ok", "raises"} :
         LET found == SymbolsOf(PositiveNotOld(stocks, OldSymbols(watchlist)))
         IN  /\ watchlist' = IF res = "ok" /\ found # <<>> THEN File(found)
                             ELSE watchlist
             /\ newsDone' = [old |-> watchlist,
                             stocks |-> IF res = "ok" THEN stocks ELSE <<>>,
                             sent |-> IF res = "ok" THEN found ELSE <<>>,
                             outcome |-> IF res = "ok" THEN "ok" ELSE "failed"]
    /\ UNCHANGED <<mainVars, probeVars, enhVars, pureVars>>

SpecNews == Init /\ [][WatchNews]_vars

\* the new list of the latest call: the fetched symbols with positive news
NewsNew == SymbolsOf(SelectSeq(newsDone.stocks, LAMBDA st : st.sentiment = "positive"))
NewsOld == OldSymbols(newsDone.old)

\* q lists distinct symbols, in the order of their first occurrence in p
IsOrderedSetOf(q, p) ==
    /\ \A a, b \in 1..Len(q) : a # b => q[a] # q[b]
    /\ \A a, b \in 1..Len(q) : a < b =>
           \E i, j \in 1..Len(p) : i < j /\ p[i] = q[a] /\ p[j] = q[b]

\* C12: the new entries found by watch_positive_news_stocks: none when the
\* new list equals the old list, the whole new list when the old list is
\* empty or its file absent, and otherwise exactly the symbols of the new
\* list that the old list lacks, each once, in the new list's order.
C12_NewEntries ==
    newsDone.outcome = "ok" =>
        /\ NewsNew = NewsOld => newsDone.sent = <<>>
        /\ NewsOld = <<>> => newsDone.sent = NewsNew
        /\ Range(newsDone.sent) = Range(NewsNew) \ Range(NewsOld)
        /\ (NewsOld # <<>> /\ NewsNew # NewsOld) =>
               IsOrderedSetOf(newsDone.sent, NewsNew)

\* the number of alerts of the sequence q that name the symbol s
AlertsFor(q, s) == Cardinality({k \in 1..Len(q) : q[k] = s})

\* C13: one invocation of a diffing action with prior snapshot old and fresh
\* list new emits exactly one alert for each symbol of new that old lacks and
\* no alert for a symbol of old (here: the positive-news watcher).
C13_OneAlertPerNewSymbol ==
    newsDone.outcome = "ok" =>
        \A s \in Symbols :
            AlertsFor(newsDone.sent, s) =
                IF s \in Range(NewsNew) \ Range(NewsOld) THEN 1 ELSE 0

\* C14: every pipeline action catches its own failures: whatever a
\* collaborator raises, the invocation ends normally and no exception leaves
\* the action.
C14_NoExceptionEscapes == done.outcome # "escaped"

(***************************************************************************)
(* enhanced_main.py: SimpleEnhancedTradingSystem and its notifications.    *)
(***************************************************************************)
MaxLoops == 12
MaxAttempts == 3
HealthEvery == 10

\* the notifications section a config/trading_settings.json may hold: the
\* bot token absent, the placeholder deploy.py writes, or a real token; the
\* chat id present or not
Configs == [token : {"absent", "placeholder", "real"}, chat : BOOLEAN, paper : BOOLEAN]
\* what the transport does at each delivery attempt it is asked for
Transports == [1..MaxAttempts -> {"ok", "fail"}]

NoHandlers == <<>>

\* the except clauses around the notification of start-up and of shutdown
StartupHandlers == <<"ImportError", "Exception">>
ShutdownHandlers == <<"Exception">>
\* does a list of except clauses catch the exception exc
Catches(handlers, exc) ==
    \E k \in 1..Len(handlers) : handlers[k] = "Exception" \/ handlers[k] = exc

\* a token that is never taken for the placeholder
NeverPlaceholder(token) == FALSE
\* bot_token == "YOUR_TELEGRAM_BOT_TOKEN", the value deploy.py writes
IsPlaceholder(token) == token = "placeholder"

\* The notification step shared by send_startup_notification() and
\* shutdown(): what it does up to its except clauses.  It skips without a
\* token, imports the library, reads token and chat id, skips the
\* placeholder token, and awaits bot.send_message() once.
SendOnce(c, l, tr) ==
    IF c.token = "absent" THEN [attempts |-> 0, exc |-> "none", outcome |-> "not_configured"]
    ELSE IF ~l THEN [attempts |-> 0, exc |-> "ImportError", outcome |-> "failed"]
    ELSE IF ~c.chat THEN [attempts |-> 0, exc |-> "KeyError", outcome |-> "failed"]
    ELSE IF IsPlaceholder(c.token) THEN [attempts |-> 0, exc |-> "none", outcome |-> "placeholder"]
    ELSE IF tr[1] = "ok" THEN [attempts |-> 1, exc |-> "none", outcome |-> "sent"]
    ELSE [attempts |-> 1, exc |-> "TelegramError", outcome |-> "failed"]

\* the notification step with its except clauses: the exception is logged,
\* or it escapes
Notification(step, handlers, tr) ==
    LET r == SendOnce(config, lib, tr)
    IN  [step |-> step, attempts |-> r.attempts, transport |-> tr,
         outcome |-> IF r.exc = "none" THEN r.outcome
                     ELSE IF Catches(handlers, r.exc) THEN "logged"
                     ELSE "escaped"]

\* config/trading_settings.json as load_config() finds it: missing,
\* unreadable, not JSON, or JSON with some content; the content is read
\* only from a file that parses
FailingStatuses == {"missing", "unreadable", "malformed"}
ConfigFiles ==
    {[status |-> st, content |-> DefaultConfig] : st \in FailingStatuses}
        \cup {[status |-> "valid", content |-> c] : c \in Configs}

ConfigNoHandlers == <<>>
\* the except clause of load_config()
ConfigHandlers == <<"Exception">>

\* load_config(): the file missing gives the default configuration; open()
\* and json.load() raise on a file that is unreadable or malformed, and the
\* except clause gives the default configuration; otherwise the parsed
\* content is returned as it is
LoadConfig(f) ==
    LET exc == IF f.status = "unreadable" THEN "PermissionError"
               ELSE IF f.status = "malformed" THEN "JSONDecodeError"
               ELSE "none"
    IN  IF exc = "none" /\ f.status = "valid"
        THEN [file |-> f, raised |-> FALSE, result |-> "parsed", config |-> f.content]
        ELSE IF exc = "none" \/ Catches(ConfigHandlers, exc)
        THEN [file |-> f, raised |-> FALSE, result |-> "default", config |-> DefaultConfig]
        ELSE [file |-> f, raised |-> TRUE, result |-> "none", config |-> DefaultConfig]

\* SimpleEnhancedTradingSystem(): is_running = False, then load_config()
\* gives self.config; an exception leaving it fails the construction
Construct ==
    /\ ePc = "new"
    /\ \E f \in ConfigFiles, l \in BOOLEAN :
         LET r == LoadConfig(f)
         IN  /\ loadDone' = r
             /\ lib' = l
             /\ IF r.raised
                THEN ePc' = "failed" /\ UNCHANGED config
                ELSE ePc' = "created" /\ config' = r.config
    /\ is_running' = FALSE
    /\ UNCHANGED <<mainVars, probeVars, newsVars, weakDone, gateDone, checkDone, deployDone,
                   loop_count, notified, healthAt, marketAt, shutdowns>>

\* shutdown(): is_running = False, then the notification inside its own
\* try; the outer except logs whatever is left
ShutdownEffect(tr) ==
    /\ shutdowns' = shutdowns + 1
    /\ is_running' = FALSE
    /\ notified' = Notification("shutdown", ShutdownHandlers, tr)
    /\ ePc' = "stopped"

\* a health check on every iteration
HealthCheckAlways(n) == TRUE
\* if loop_count % 10 == 0
HealthCheckDue(n) == n % HealthEvery = 0

\* the body of one iteration of main_loop() up to its sleep: the loop count
\* goes to n, the health check runs if due, check_market_open() is called
Iteration(n) ==
    /\ loop_count' = n
    /\ healthAt' = IF HealthCheckDue(n) THEN healthAt \cup {n} ELSE healthAt
    /\ marketAt' = marketAt \cup {n}

\* start(): health check, send_startup_notification(), then main_loop() up
\* to its first sleep; an exception reaching start() leads to shutdown()
StartSystem ==
    /\ ePc = "created"
    /\ \E tr \in Transports, tr2 \in Transports :
         LET n == Notification("startup", StartupHandlers, tr)
         IN  IF n.outcome = "escaped"
             THEN /\ ShutdownEffect(tr2)
                  /\ UNCHANGED <<loop_count, healthAt, marketAt>>
             ELSE /\ notified' = n
                  /\ is_running' = TRUE
                  /\ Iteration(1)
                  /\ ePc' = "loop"
                  /\ UNCHANGED shutdowns
    /\ UNCHANGED <<mainVars, probeVars, newsVars, pureVars, config, lib>>

\* one more iteration of main_loop() after its sleep of 30 seconds
LoopIteration ==
    /\ ePc = "loop"
    /\ is_running
    /\ loop_count < MaxLoops
    /\ Iteration(loop_count + 1)
    /\ UNCHANGED <<mainVars, probeVars, newsVars, pureVars, ePc, config, lib, is_running,
                   notified, shutdowns>>

\* what a step of an iteration can raise: an Exception (a failing print or
\* log handler), a KeyboardInterrupt delivered while the body runs, or the
\* CancelledError that asyncio.run() throws into the pending
\* asyncio.sleep(30) when Ctrl+C arrives or the task is cancelled
LoopExceptions == {"OSError", "KeyboardInterrupt", "CancelledError"}
\* the except clauses of main_loop(), and the one of start() around it
LoopHandlers == <<"KeyboardInterrupt", "Exception">>
StartHandlers == <<"Exception">>
\* CancelledError and KeyboardInterrupt derive from BaseException only
BaseExceptions == {"KeyboardInterrupt", "CancelledError"}
Handles(handlers, exc) ==
    \E k \in 1..Len(handlers) :
        \/ handlers[k] = exc
        \/ handlers[k] = "Exception" /\ exc \notin BaseExceptions

\* an exception in the body of main_loop(): an except clause of main_loop()
\* or of start() logs it and awaits shutdown(), after which start()
\* returns; an exception neither catches leaves start() raising
LoopError ==
    /\ ePc = "loop"
    /\ \E exc \in LoopExceptions, tr \in Transports :
         IF Handles(LoopHandlers, exc) \/ Handles(StartHandlers, exc)
         THEN ShutdownEffect(tr)
         ELSE /\ ePc' = "raised"
              /\ UNCHANGED <<is_running, notified, shutdowns>>
    /\ UNCHANGED <<mainVars, probeVars, newsVars, pureVars, config, lib, loop_count,
                   healthAt, marketAt>>

NextEnhanced == Construct \/ StartSystem \/ LoopIteration \/ LoopError
SpecEnhanced == Init /\ [][NextEnhanced]_vars

\* the number of attempts a delivery with up to MaxAttempts attempts makes on
\* the transport tr: up to the first success
AttemptsDue(tr) ==
    IF \E k \in 1..MaxAttempts : tr[k] = "ok"
    THEN CHOOSE k \in 1..MaxAttempts : tr[k] = "ok" /\ \A i \in 1..(k - 1) : tr[i] = "fail"
    ELSE MaxAttempts

\* C15: a notification that reaches the transport is attempted up to 3 times:
\* it makes as many attempts as it takes to the first success, 3 at most, and
\* reports success exactly if one of them succeeded.
C15_ThreeAttempts ==
    notified.outcome \in {"sent", "logged"} /\ notified.attempts > 0 =>
        /\ notified.attempts = AttemptsDue(notified.transport)
        /\ (notified.outcome = "sent") =
               (\E k \in 1..MaxAttempts : notified.transport[k] = "ok")

\* C16: sending a notification never raises past its boundary: whatever the
\* library, the configuration and the transport do, the notification step
\* ends with the failure logged at most; start() goes on into main_loop()
\* (is_running true) and shutdown() completes with is_running false.
C16_NotificationNeverRaises ==
    /\ notified.outcome # "escaped"
    /\ notified.step = "startup" => ePc \in {"loop", "raised"} /\ is_running
    /\ notified.step = "shutdown" => ePc = "stopped" /\ ~is_running /\ loop_count > 0

\* the start-up notification failed at the transport and the main loop runs
C16_StartupSendFailedLoopRuns ==
    /\ notified.step = "startup"
    /\ notified.outcome = "logged"
    /\ notified.attempts = 1
    /\ ePc = "loop"
    /\ loop_count > 1

(***************************************************************************)
(* is_market_weak(): has SPY lost more than 1% since the prior close.      *)
(***************************************************************************)
MaxCloses == 3

\* closing prices, in cents
Prices == {9800, 9899, 9900, 9901, 10000}
\* what spy.history(period="2d") may return: its Close column
Histories == UNION {[1..n -> Prices] : n \in 0..MaxCloses}

WeakAtOnePercent(hist) ==
    /\ Len(hist) >= 2
    /\ (hist[Len(hist)] - hist[Len(hist) - 1]) * 100 <= (0 - 1) * hist[Len(hist) - 1]

\* the try block of is_market_weak(): with at least two closes,
\* change_pct = (today_close - prev_close) / prev_close * 100 and the answer
\* is change_pct < -1 (prices are positive, so the division is multiplied
\* out); with fewer closes the final return False
IsMarketWeakOf(hist) ==
    /\ Len(hist) >= 2
    /\ (hist[Len(hist)] - hist[Len(hist) - 1]) * 100 < (0 - 1) * hist[Len(hist) - 1]

\* the except clause of is_market_weak()
WeakHandlers == <<"Exception">>

\* one call of is_market_weak(): the quote fetch returns a history, or it
\* raises and the except branch logs the error before the final return False
AskMarketWeak ==
    /\ \E h \in Histories, fetch \in {"ok", "raises"} :
         weakDone' = [asked |-> TRUE, fetch |-> fetch,
                      hist |-> IF fetch = "ok" THEN h ELSE <<>>,
                      result |-> IF fetch = "ok" THEN IsMarketWeakOf(h) ELSE FALSE,
                      logged |-> fetch = "raises" /\ Catches(WeakHandlers, "FetchError"),
                      raised |-> fetch = "raises" /\ ~Catches(WeakHandlers, "FetchError")]
    /\ UNCHANGED <<mainVars, probeVars, newsVars, enhVars, gateDone, checkDone,
                   loadDone, deployDone>>

SpecWeak == Init /\ [][AskMarketWeak]_vars

\* C17: is_market_weak() answers true exactly when the history has at least
\* two closes and the latest close is more than 1% below the prior one; when
\* the fetch raises it answers false, logs the error and raises nothing.
C17_WeakIffDropOverOnePercent ==
    weakDone.asked =>
        LET h == weakDone.hist
            n == Len(h)
        IN  /\ ~weakDone.raised
            /\ weakDone.fetch = "ok" =>
                   /\ weakDone.result = (n >= 2 /\ 100 * h[n] < 99 * h[n - 1])
                   /\ ~weakDone.logged
            /\ weakDone.fetch = "raises" => ~weakDone.result /\ weakDone.logged

\* asked at a drop of exactly 1% (100.00 to 99.00): the answer is false
C17_ExactlyOnePercentIsNotWeak ==
    /\ weakDone.asked
    /\ weakDone.fetch = "ok"
    /\ Len(weakDone.hist) >= 2
    /\ weakDone.hist[Len(weakDone.hist)] = 9900
    /\ weakDone.hist[Len(weakDone.hist) - 1] = 10000
    /\ ~weakDone.result

(***************************************************************************)
(* The market gate when the clock cannot be resolved.                      *)
(***************************************************************************)
\* is_market_open() of main.py has no try: when pytz.timezone() or
\* datetime.now() raises, the exception leaves it
IsMarketOpenOrRaises(t, clock) ==
    IF clock = "raises" THEN "raises"
    ELSE IF IsMarketOpen(t) THEN "open" ELSE "closed"

\* the head of update_market_data, update_pump_stocks and
\* update_high_movement_stocks: `if not is_market_open(): return` stands
\* before the try of the action
GateOutcome(fn, t, clock) ==
    LET answer == IsMarketOpenOrRaises(t, clock)
    IN  IF answer = "raises" THEN "escaped"
        ELSE IF answer = "closed" THEN "skipped"
        ELSE "worked"

\* one invocation of an open-only gated action at some instant, up to the
\* point where its pipeline work starts
InvokeGated ==
    /\ \E fn \in RefreshFns, t \in ProbeInstants, clock \in {"ok", "raises"} :
         gateDone' = [fn |-> fn, at |-> t, clock |-> clock,
                      outcome |-> GateOutcome(fn, t, clock)]
    /\ UNCHANGED <<mainVars, probeVars, newsVars, enhVars, weakDone, checkDone,
                   loadDone, deployDone>>

SpecGate == Init /\ [][InvokeGated]_vars

\* C18: a market-open check that fails with an error counts as "open": the
\* open-only gated action goes on with its pipeline work, it is neither
\* skipped nor aborted.
C18_ClockFailureAssumesOpen ==
    gateDone.clock = "raises" => gateDone.outcome = "worked"

\* the instant of the latest dispatch of job j, read on New York's clock
NyDispatch(j) == lastDispatch[j] - hostOff + NyOff

\* C19: every time-dependent decision uses the exchange's local time, not the
\* host's: whatever the host's time zone, a daily job is dispatched when New
\* York's clock has reached its time of day (the 20:00 report at 20:00 New
\* York time, the 15:50 close-positions job at 15:50 New York time), within
\* the delay a tick can have.
C19_DailyJobsOnExchangeTime ==
    \A j \in DailyJobs :
        lastDispatch[j] # None =>
            /\ TimeOfDay(NyDispatch(j)) >= JobAt(j)
            /\ TimeOfDay(NyDispatch(j)) <= JobAt(j) + TickPeriod + Block

\* an invocation of a refresh action ends with this step
RefreshEnds == done' # done /\ done'.fn \in RefreshFns

\* the alerts a diff gives that runs after the backup and after the
\* overwrite of the invocation recorded in d: the entries of the fresh list
\* missing from what name held before the invocation (from what name_old
\* held, if name did not exist)
AlertsAfterBackupAndOverwrite(d) ==
    LET n == Snapshot(d.fn)
        prior == IF d.pre[n].cur.exists THEN d.pre[n].cur ELSE d.pre[n].old
        new == NewEntries(prior, File(d.new))
    IN  [k \in 1..Len(new) |-> <<n, new[k]>>]

\* C20: within one invocation of a refresh action the steps run in the order
\* backup, overwrite, diff, notify: the alerts of the invocation are those of
\* a diff taken after its backup and its overwrite, and an invocation whose
\* refresh raised (or whose gate failed) runs no diff and alerts nothing.
C20_BackupOverwriteDiffNotify ==
    [][RefreshEnds =>
          IF done'.outcome = "ok"
          THEN alerts' = AlertsAfterBackupAndOverwrite(done')
          ELSE alerts' = alerts]_vars

\* update_market_data replaced [AAA, BBB] by [AAA, BBB, CCC] and alerted CCC
C20_OneNewTopStockAlerted ==
    /\ done.fn = "update_market_data"
    /\ done.outcome = "ok"
    /\ done.pre["top_stocks"].cur = File(<<"AAA", "BBB">>)
    /\ done.post["top_stocks"].old = File(<<"AAA", "BBB">>)
    /\ done.new = <<"AAA", "BBB", "CCC">>
    /\ alerts = << <<"top_stocks", "CCC">> >>

IntervalJobs == {j \in Jobs : JobUnit(j) = "minutes"}

\* C21: a job's next due time counts from its dispatch, and no invocation in
\* flight suppresses or delays a dispatch: while the dispatch loop runs, no
\* interval job stays due for longer than one tick period, whatever
\* invocations are ready, running or suspended.
C21_DispatchNeverDelayed ==
    proc = "loop" =>
        \A j \in IntervalJobs :
            nextRun[j] # None => LocalTime(now) <= nextRun[j] + TickPeriod

(***************************************************************************)
(* Progress: the event loop runs what is ready, timers expire and awaited  *)
(* collaborators return; a restart of the process is up to the operator.   *)
(***************************************************************************)
Progress ==
    \/ Register
    \/ StepPlain
    \/ StepReport
    \/ StepPump
    \/ StepRefreshStart
    \/ RefreshDone
    \/ StepRefreshResume
    \/ Tick
    \/ Idle

\* the process is started once
InitOneRun == InitExceptRuns /\ runs = MaxRuns - 1

SpecLive == InitOneRun /\ [][Next]_vars /\ WF_vars(Progress)

\* the daily report was dispatched, found the market open and returned
ReportPostponed ==
    done.fn = "send_daily_report_task" /\ done.outcome = "skipped"
\* generate_report_summary() was called by the daily report
ReportGenerated ==
    done.fn = "send_daily_report_task" /\ done.outcome \in {"ok", "escaped"}

\* C22: a daily report whose trigger finds the market open is deferred, not
\* dropped: it is generated later, once the market is closed.
C22_PostponedReportIsSent == ReportPostponed ~> ReportGenerated

\* C23: over the runs of watch_positive_news_stocks a symbol that stays
\* positive is alerted once and never again: a symbol that was in
\* data/positive_watchlist.json before a run and is fetched with positive
\* news in that run is still in the file after it.
C23_AlertedSymbolStaysListed ==
    newsDone.outcome = "ok" =>
        \A s \in Range(NewsOld) \cap Range(NewsNew) :
            watchlist.exists /\ s \in Range(watchlist.data)

\* C24: no change alert is emitted while the market is closed: every step
\* that emits alerts of a refresh action ends at an instant at which
\* is_market_open() is true.
C24_NoAlertWhileClosed ==
    [][(alerts' # alerts /\ alerts' # <<>>) => IsMarketOpen(now')]_vars

(***************************************************************************)
(* enhanced_main.py: check_market_open(), asked at a host-local time.      *)
(***************************************************************************)
\* host-local times of day at which the check is asked, on each weekday
CheckTimes ==
    { HMS(0, 0, 0), HMS(8, 59, 59), HMS(9, 0, 0), HMS(9, 29, 0), HMS(12, 0, 0),
      HMS(15, 59, 59), HMS(16, 0, 0), HMS(16, 0, 1), HMS(16, 30, 0),
      HMS(16, 59, 59), HMS(17, 0, 0), HMS(23, 59, 59) }
CheckInstants == {d * Day + t : d \in 0..6, t \in CheckTimes}

\* check_market_open() at the host-local time l: False at the weekend, True
\* when 9 <= now.hour <= 16, False otherwise; True when reading the clock
\* raised
CheckMarketOpen(l, clock) ==
    IF clock = "raises" THEN TRUE
    ELSE IF Weekday(l) >= 5 THEN FALSE
    ELSE 9 <= HourOf(l) /\ HourOf(l) <= 16

AskCheckMarketOpen ==
    /\ \E l \in CheckInstants, clock \in {"ok", "raises"} :
         checkDone' = [asked |-> TRUE, at |-> l, clock |-> clock,
                       open |-> CheckMarketOpen(l, clock)]
    /\ UNCHANGED <<mainVars, probeVars, newsVars, enhVars, weakDone, gateDone,
                   loadDone, deployDone>>

SpecCheck == Init /\ [][AskCheckMarketOpen]_vars

\* C25: check_market_open() is true exactly when the current time is on
\* Monday to Friday and between 09:00:00 and 16:00:00; it is false at every
\* time after 16:00 and at the weekend.
C25_OpenIffNineToFour ==
    (checkDone.asked /\ checkDone.clock = "ok") =>
        checkDone.open = (/\ Weekday(checkDone.at) \in 0..4
                          /\ HMS(9, 0, 0) <= TimeOfDay(checkDone.at)
                          /\ TimeOfDay(checkDone.at) <= HMS(16, 0, 0))


\* C26: main_loop() performs the health check on exactly the iterations
\* whose 1-based loop count is a multiple of 10 (first at iteration 10, never
\* at iterations 1..9), and checks the market status on every iteration.
C26_HealthCheckEveryTenth ==
    /\ \A n \in 1..loop_count : (n \in healthAt) = (\E q \in 1..loop_count : n = 10 * q)
    /\ healthAt \subseteq 1..loop_count
    /\ healthAt \cap (1..9) = {}
    /\ marketAt = 1..loop_count

\* the loop has passed iteration 10 and the health check ran there
C26_TenthIterationChecked ==
    /\ ePc = "loop"
    /\ loop_count > 10
    /\ healthAt = {10}


\* C27: lifecycle of SimpleEnhancedTradingSystem: is_running is false after
\* construction, true during every iteration of main_loop() and false after
\* shutdown(); when a step of an iteration raises, shutdown() is invoked
\* exactly once, no further iteration is performed and start() returns; the
\* loop ends in no other way.
C27_Lifecycle ==
    /\ [](/\ ePc = "created" => ~is_running
          /\ ePc = "loop" => is_running
          /\ shutdowns > 0 => ~is_running
          /\ shutdowns <= 1)
    /\ [][/\ (ePc = "loop" /\ ePc' # "loop") =>
                 /\ shutdowns' = shutdowns + 1
                 /\ ePc' = "stopped"
                 /\ ~is_running'
          /\ shutdowns > 0 => loop_count' = loop_count]_vars


\* C28: load_config() never raises and always returns a configuration: the
\* parsed content of config/trading_settings.json when the file exists and
\* parses, and the default configuration (paper trading enabled) when the
\* file is missing, unreadable or malformed.
C28_LoadConfigNeverRaises ==
    /\ ~loadDone.raised
    /\ ePc # "failed"
    /\ ePc # "new" =>
         /\ loadDone.result \in {"parsed", "default"}
         /\ config = loadDone.config
         /\ loadDone.file.status = "valid" =>
                loadDone.result = "parsed" /\ config = loadDone.file.content
         /\ loadDone.file.status \in {"missing", "unreadable", "malformed"} =>
                loadDone.result = "default" /\ config = DefaultConfig /\ config.paper

\* a malformed settings file ended in the default configuration
C28_MalformedGivesDefault ==
    /\ loadDone.file.status = "malformed"
    /\ loadDone.result = "default"
    /\ ePc = "loop"


\* the trading_settings.json that deploy.py generates: placeholder token and
\* chat id, paper trading enabled
DeployedConfig == [token |-> "placeholder", chat |-> TRUE, paper |-> TRUE]

\* C29: a Telegram message is sent at start-up or shutdown only if the
\* loaded configuration has a bot token that is neither empty nor the
\* placeholder; with the default configuration, or with the configuration
\* deploy.py generates, neither start-up nor shutdown sends a message.
C29_SendOnlyWithRealToken ==
    /\ notified.attempts > 0 => config.token = "real"
    /\ notified.outcome = "sent" => config.token = "real"
    /\ config \in {DefaultConfig, DeployedConfig} =>
           notified.attempts = 0 /\ notified.outcome # "sent"

\* the generated configuration was loaded, the library is installed, and
\* shutdown skipped its message at the placeholder token
C29_PlaceholderSkipped ==
    /\ loadDone.result = "parsed"
    /\ config = DeployedConfig
    /\ lib
    /\ notified.step = "shutdown"
    /\ notified.outcome = "placeholder"


(***************************************************************************)
(* deploy.py: main() runs the deployment steps inside one try block.       *)
(***************************************************************************)
\* the calls in the try block of main(), in the order of the source
MainBody ==
    <<"check_system_requirements", "create_directory_structure",
      "setup_virtual_environment", "install_dependencies",
      "create_configuration_files", "create_startup_scripts",
      "create_docker_files", "create_systemd_service", "run_initial_tests",
      "print_deployment_summary">>

\* every call made whatever the arguments and the platform
SelectAll(step, d) == TRUE
\* the conditions in front of the optional calls: not args.no_docker,
\* os.name != 'nt', not args.skip_tests
Selected(step, d) ==
    /\ step = "create_docker_files" => ~d.no_docker
    /\ step = "create_systemd_service" => ~d.nt
    /\ step = "run_initial_tests" => ~d.skip_tests

\* run_initial_tests() catches every exception of its body and goes on
NeverRaising == {"run_initial_tests"}

\* main() parses the arguments and enters the try block
DeployStart ==
    /\ deployDone.pc = "new"
    /\ \E nd \in BOOLEAN, st \in BOOLEAN, nt \in BOOLEAN :
         deployDone' = [deployDone EXCEPT !.pc = "running", !.no_docker = nd,
                                          !.skip_tests = st, !.nt = nt]
    /\ UNCHANGED <<mainVars, probeVars, newsVars, enhVars, weakDone, gateDone, checkDone,
                   loadDone>>

\* the next call of the try block: skipped if its condition is false;
\* otherwise it completes, or it raises and the except clause of main()
\* returns False, which makes the process exit with status 1
DeployStep ==
    /\ deployDone.pc = "running"
    /\ deployDone.pos < Len(MainBody)
    /\ LET step == MainBody[deployDone.pos + 1]
       IN  IF ~Selected(step, deployDone)
           THEN deployDone' = [deployDone EXCEPT !.pos = @ + 1]
           ELSE \E out \in IF step \in NeverRaising THEN {"ok"} ELSE {"ok", "raises"} :
                  IF out = "ok"
                  THEN deployDone' = [deployDone EXCEPT !.pos = @ + 1,
                                                      !.ran = Append(@, step)]
                  ELSE deployDone' = [deployDone EXCEPT !.pc = "done", !.failed = step,
                                                      !.result = "False", !.exit = 1]
    /\ UNCHANGED <<mainVars, probeVars, newsVars, enhVars, weakDone, gateDone, checkDone,
                   loadDone>>

\* the end of the try block: return True, and sys.exit(0)
DeployReturn ==
    /\ deployDone.pc = "running"
    /\ deployDone.pos = Len(MainBody)
    /\ deployDone' = [deployDone EXCEPT !.pc = "done", !.result = "True", !.exit = 0]
    /\ UNCHANGED <<mainVars, probeVars, newsVars, enhVars, weakDone, gateDone, checkDone,
                   loadDone>>

NextDeploy == DeployStart \/ DeployStep \/ DeployReturn
SpecDeploy == Init /\ [][NextDeploy]_vars

\* the deployment steps in the order the specification gives them
StepOrder ==
    <<"check_system_requirements", "create_directory_structure",
      "setup_virtual_environment", "install_dependencies",
      "create_configuration_files", "create_startup_scripts",
      "create_docker_files", "create_systemd_service", "run_initial_tests",
      "print_deployment_summary">>
Rank(step) == CHOOSE k \in 1..Len(StepOrder) : StepOrder[k] = step
\* the steps the arguments and the platform ask for
Wanted(d) ==
    {StepOrder[k] : k \in 1..Len(StepOrder)}
        \ ((IF d.no_docker THEN {"create_docker_files"} ELSE {})
           \cup (IF d.nt THEN {"create_systemd_service"} ELSE {})
           \cup (IF d.skip_tests THEN {"run_initial_tests"} ELSE {}))

\* C30: deploy.main() runs the steps in the fixed order requirements check,
\* directories, virtual environment, dependencies, configuration files,
\* start-up scripts, Docker files (unless --no-docker), systemd service
\* (non-Windows), initial tests (unless --skip-tests), summary; if a step
\* raises, no later step runs, the summary is not printed, main returns
\* False and the process exits with status 1; main returns True only when
\* every selected step completed.
C30_DeployStepsInOrder ==
    /\ [](LET d == deployDone
              ran == {d.ran[k] : k \in 1..Len(d.ran)}
          IN  /\ ran \subseteq Wanted(d)
              /\ \A i, j \in 1..Len(d.ran) : i < j => Rank(d.ran[i]) < Rank(d.ran[j])
              /\ \A s \in ran, w \in Wanted(d) : Rank(w) < Rank(s) => w \in ran
              /\ d.failed # "none" =>
                     /\ d.failed \in Wanted(d) \ ran
                     /\ \A w \in Wanted(d) : Rank(w) > Rank(d.failed) => w \notin ran
                     /\ "print_deployment_summary" \notin ran
                     /\ d.result = "False"
                     /\ d.exit = 1
              /\ d.result = "True" => ran = Wanted(d) /\ d.failed = "none" /\ d.exit = 0
              /\ d.pc = "done" => d.result \in {"True", "False"})
    /\ [][deployDone.pc = "done" => deployDone' = deployDone]_vars

\* with --no-docker, the dependencies step raised after three steps had run
C30_FailedAtDependencies ==
    /\ deployDone.no_docker
    /\ deployDone.failed = "install_dependencies"
    /\ Len(deployDone.ran) = 3
    /\ deployDone.exit = 1

====
